---------------------------- MODULE Spec2Model ----------------------------
(***************************************************************************)
(* A state-machine model of AWoL_MRF (Versions/pub_mrf2.4.py): the         *)
(* construction-time vote aggregation and confidence classification, and   *)
(* run(): find_lcv, find_seeds, the seed loop (get_patch,                  *)
(* get_mst_sequence, mrf_potentials) and final_labels.                     *)
(*                                                                         *)
(* Volumes are functions from the flat (C-order) voxel index to a value;   *)
(* the sentinel of a low-confidence voxel is -1.  Thresholds are rationals *)
(* k/TDen.  An exception that leaves run() is the state pc = "raised".     *)
(***************************************************************************)
EXTENDS Integers, Sequences, FiniteSets

VARIABLES
    shape,          \* self.labels.shape, <<depth, height, width>>
    labelimg_list,  \* the candidate label volumes handed to __init__
    thresholds,     \* one threshold numerator (over TDen) per label value
    beta,           \* self.beta
    mixing_ratio,   \* self.mixing_ratio
    patch_length,   \* self.patch_length
    intensity,      \* self.intensity
    label_values,   \* self.label_values, ascending
    mode,           \* self.mode: per voxel [idx |-> argmax, cnt |-> amax]
    labels,         \* self.labels, the confidence volume
    new_labels,     \* self.new_labels, the working volume
    label_count,    \* self.label_count, per voxel a count per label index
    lcv,            \* self.lcv, ascending flat indices
    no_lcv,         \* self.no_lcv: "unset" | "True" | "False"
    seeds,          \* self.seeds
    patches,        \* self.patches, one voxel set per queued seed
    do_walk,        \* self.do_walk: "unset" | "True" | "False"
    lcvp,           \* self.lcvp
    patch_stats,    \* self.patch_stats: label value -> [n, sum, sumsq]
    seq,            \* self.seq
    pos,            \* position of mrf_potentials' loop in self.seq
    pc,             \* where run() stands
    error           \* the exception that left run(), or "none"

vars == <<shape, labelimg_list, thresholds, beta, mixing_ratio, patch_length,
          intensity, label_values, mode, labels, new_labels, label_count,
          lcv, no_lcv, seeds, patches, do_walk, lcvp, patch_stats, seq, pos,
          pc, error>>

-----------------------------------------------------------------------------
(* Bounds of the input families                                            *)

\* main family: width of the 1 x 1 x Width volume
Width == 7
\* main family: at most this many voxels on which the two candidates disagree
MaxDisagree == 3
\* main family: the intensity rises by 1 every d voxels, d in 1..MaxRun
MaxRun == 3
\* main family: mixing_ratio is 0..MaxMixing
MaxMixing == 1
\* main family: patch_length is 0..MaxPatchLength
MaxPatchLength == 2
\* the value the Gaussian singleton term of one label may take is 0..MaxSingle
MaxSingle == 5
\* classification family: width of the 1 x 1 x WidthC volume
WidthC == 2
\* classification family: number of candidate volumes
NImgC == 3
\* classification family: label values are drawn from 0..MaxLabelC
MaxLabelC == 1

\* thresholds are floats in [0.0, 1.0]; the model writes them k/TDen
TDen == 10
\* the weight of two voxels that are not direct neighbours is 100 * distance
FarFactor == 100
\* the threshold numerators tried: 0, 0.2 (the default) and 1
ThresholdVals == {0, 2, TDen}
\* the values tried for beta (the default is negative)
BetaVals == {-1, 1}

Sentinel == -1

-----------------------------------------------------------------------------
(* Arithmetic and sequence helpers                                         *)

Range(f) == {f[x] : x \in DOMAIN f}

Abs(x) == IF x < 0 THEN -x ELSE x

Min(S) == CHOOSE x \in S : \A y \in S : x <= y

Max(S) == CHOOSE x \in S : \A y \in S : x >= y

RECURSIVE SortedSeq(_)
\* the ascending sequence of a finite set of integers (sorted(), np.unique)
SortedSeq(S) ==
    IF S = {} THEN <<>> ELSE <<Min(S)>> \o SortedSeq(S \ {Min(S)})

RECURSIVE SumOver(_, _)
SumOver(S, f) ==
    IF S = {} THEN 0
    ELSE LET x == CHOOSE y \in S : TRUE IN f[x] + SumOver(S \ {x}, f)

\* np.where(a == x)[0][0]: the first position of x in a
IndexOf(a, x) == Min({i \in DOMAIN a : a[i] = x})

\* np.argmax over a sequence: the first position holding the maximum
ArgMax(a) == Min({i \in DOMAIN a : \A j \in DOMAIN a : a[i] >= a[j]})

-----------------------------------------------------------------------------
(* Geometry: np.ravel_multi_index / np.unravel_index and the KDTree balls  *)

NVox(sh) == sh[1] * sh[2] * sh[3]

Vox(sh) == 0 .. (NVox(sh) - 1)

\* np.unravel_index(v, shape)
Coord(v, sh) == <<v \div (sh[2] * sh[3]), (v \div sh[3]) % sh[2], v % sh[3]>>

\* the squared Euclidean distance of two voxels
Dist2(a, b, sh) ==
    LET x == Coord(a, sh)
        y == Coord(b, sh)
    IN (x[1] - y[1]) * (x[1] - y[1]) + (x[2] - y[2]) * (x[2] - y[2])
       + (x[3] - y[3]) * (x[3] - y[3])

\* query_ball_tree(tree, r) for the point v: every voxel within distance r,
\* r given by its square
Ball(v, r2, sh) == {u \in Vox(sh) : Dist2(v, u, sh) <= r2}

\* neighbors(tree_lcv, tree, 1)[v]: the 6-voxel neighbourhood, v removed
neighbors_small(v, sh) == Ball(v, 1, sh) \ {v}

\* neighbors(tree_lcv, tree, np.sqrt(3))[v]: the 26-voxel neighbourhood
neighbors_big(v, sh) == Ball(v, 3, sh) \ {v}

-----------------------------------------------------------------------------
(* __init__: votes, mode and the confidence volume                         *)

\* np.unique(label_array) of the first image
LabelValuesOf(imgs) == SortedSeq(Range(imgs[1]))

\* the check of line 69: every image holds the label values of the first
SameLabels(imgs) == \A n \in DOMAIN imgs : Range(imgs[n]) = Range(imgs[1])

\* votes[i][v]: the number of images holding label_values[i] at v
Votes(imgs, lv, i, v) == Cardinality({n \in DOMAIN imgs : imgs[n][v] = lv[i]})

VoteRow(imgs, lv, v) == [i \in DOMAIN lv |-> Votes(imgs, lv, i, v)]

\* self.mode = (np.argmax(votes, axis=0), np.amax(votes, axis=0))
ModeOf(imgs, lv, sh) ==
    [v \in Vox(sh) |->
        LET row == VoteRow(imgs, lv, v)
        IN [idx |-> ArgMax(row), cnt |-> row[ArgMax(row)]]]

\* n_labels = np.sum(votes != 0, axis=0)
NLabels(imgs, lv, v) ==
    Cardinality({i \in DOMAIN lv : Votes(imgs, lv, i, v) # 0})

\* a variant of MinVotesMet without the clause for a unanimous voxel
MinVotesMet_NoUnanimous(cnt, n, t, nimg) ==
    cnt * n * TDen >= (TDen + t * n) * nimg

\* (n_labels == 1) | (mode[1] >= (1.0/n_labels + thresholds[i]) * nimg),
\* both sides multiplied by n * TDen
MinVotesMet(cnt, n, t, nimg) ==
    (n = 1) \/ (cnt * n * TDen >= (TDen + t * n) * nimg)

RECURSIVE ClassifyLoop(_, _, _, _, _, _)
\* the loop of lines 91-95, from label index i on, over the volume labs
ClassifyLoop(i, labs, imgs, lv, thr, md) ==
    IF i > Len(lv) THEN labs
    ELSE ClassifyLoop(i + 1,
            [v \in DOMAIN labs |->
                IF md[v].idx = i
                   /\ MinVotesMet(md[v].cnt, NLabels(imgs, lv, v), thr[i],
                                  Len(imgs))
                THEN lv[i] ELSE labs[v]],
            imgs, lv, thr, md)

\* self.labels after __init__
Classify(imgs, lv, thr, md, sh) ==
    ClassifyLoop(1, [v \in Vox(sh) |-> Sentinel], imgs, lv, thr, md)

NoStats == [k \in {} |-> 0]

\* the state __init__ leaves for the given arguments
Constructed(sh, imgs, thr, b, mr, pl, inten) ==
    /\ shape = sh
    /\ labelimg_list = imgs
    /\ thresholds = thr
    /\ beta = b
    /\ mixing_ratio = mr
    /\ patch_length = pl
    /\ intensity = inten
    /\ label_values = LabelValuesOf(imgs)
    /\ mode = ModeOf(imgs, LabelValuesOf(imgs), sh)
    /\ labels = Classify(imgs, LabelValuesOf(imgs), thr,
                         ModeOf(imgs, LabelValuesOf(imgs), sh), sh)
    /\ new_labels = [v \in {} |-> 0]
    /\ label_count = [v \in {} |-> 0]
    /\ lcv = <<>>
    /\ no_lcv = "unset"
    /\ seeds = <<>>
    /\ patches = <<>>
    /\ do_walk = "unset"
    /\ lcvp = <<>>
    /\ patch_stats = NoStats
    /\ seq = <<>>
    /\ pos = 0
    /\ pc = "run"
    /\ error = "none"

-----------------------------------------------------------------------------
(* run(): find_lcv                                                         *)

\* a variant of LowConfidence that finds no voxel
LowConfidence_Blind(labs) == {v \in DOMAIN labs : labs[v] < Sentinel}

\* np.where(self.labels == -1), raveled
LowConfidence(labs) == {v \in DOMAIN labs : labs[v] = Sentinel}

\* find_lcv and the branch of run() on self.no_lcv: with no low-confidence
\* voxel run() returns get_output_image() of self.labels at once
find_lcv ==
    /\ pc = "run"
    /\ lcv' = SortedSeq(LowConfidence(labels))
    /\ IF LowConfidence(labels) = {}
       THEN /\ no_lcv' = "True"
            /\ pc' = "done"
            /\ UNCHANGED <<new_labels, label_count>>
       ELSE /\ no_lcv' = "False"
            /\ label_count' =
                   [v \in Vox(shape) |-> [i \in DOMAIN label_values |-> 0]]
            /\ new_labels' = labels
            /\ pc' = "find_seeds"
    /\ UNCHANGED <<shape, labelimg_list, thresholds, beta, mixing_ratio,
                   patch_length, intensity, label_values, mode, labels,
                   seeds, patches, do_walk, lcvp, patch_stats, seq, pos,
                   error>>

-----------------------------------------------------------------------------
(* run(): find_seeds                                                       *)

\* n_hcv = sum(lflat[self.neighbors_big[lcv]] != -1)
n_hcv(v) ==
    Cardinality({u \in neighbors_big(v, shape) : labels[u] # Sentinel})

\* (c1, s1) < (c2, s2) as Python orders tuples
PairLess(p, q) == p[1] < q[1] \/ (p[1] = q[1] /\ p[2] < q[2])

RECURSIVE SortedPairs(_)
\* sorted(zip(confidence_level, self.seeds)): ascending (score, seed) pairs
SortedPairs(S) ==
    IF S = {} THEN <<>>
    ELSE LET m == CHOOSE p \in S : \A q \in S : p = q \/ PairLess(p, q)
         IN <<m>> \o SortedPairs(S \ {m})

Reverse(s) == [i \in 1 .. Len(s) |-> s[Len(s) + 1 - i]]

\* a variant of RankSeeds: descending score, equal scores in ascending index
RankSeeds_Stable(cands) ==
    LET pairs == SortedPairs({<<0 - n_hcv(v), v>> : v \in cands})
    IN [i \in 1 .. Len(pairs) |-> pairs[i][2]]

\* [seed for (c, seed) in sorted(zip(confidence_level, self.seeds))][::-1]
RankSeeds(cands) ==
    LET pairs == SortedPairs({<<n_hcv(v), v>> : v \in cands})
    IN Reverse([i \in 1 .. Len(pairs) |-> pairs[i][2]])

\* the low-confidence voxels with n_hcv > self.mixing_ratio
SeedCandidates == {v \in Range(lcv) : n_hcv(v) > mixing_ratio}

\* tree_seeds.query_ball_tree(self.tree, self.patch_length), one per seed
PatchOf(v) == Ball(v, patch_length * patch_length, shape)

find_seeds ==
    /\ pc = "find_seeds"
    /\ seeds' = RankSeeds(SeedCandidates)
    /\ patches' = [i \in 1 .. Len(seeds') |-> PatchOf(seeds'[i])]
    /\ pc' = "loop"
    /\ UNCHANGED <<shape, labelimg_list, thresholds, beta, mixing_ratio,
                   patch_length, intensity, label_values, mode, labels,
                   new_labels, label_count, lcv, no_lcv, do_walk, lcvp,
                   patch_stats, seq, pos, error>>

-----------------------------------------------------------------------------
(* run(): get_patch                                                        *)

\* a variant of still_lcv_patch that reads the confidence volume
still_lcv_patch_Confidence == {v \in patches[1] : labels[v] = Sentinel}

\* np.asarray(self.patches[0])[self.new_labels.ravel()[self.patches[0]] == -1]
still_lcv_patch == {v \in patches[1] : new_labels[v] = Sentinel}

\* a variant of PatchLcv that reads the working volume
PatchLcv_Working == {v \in patches[1] : new_labels[v] = Sentinel}

\* np.asarray(self.patches[0])[lflat[self.patches[0]] == -1]
PatchLcv == {v \in patches[1] : labels[v] = Sentinel}

\* np.asarray(self.patches[0])[lflat[self.patches[0]] == value]
PatchPoints(value) == {v \in patches[1] : labels[v] = value}

\* [np.mean(points), np.std(points)], kept as the count, the sum and the
\* sum of squares that determine them
StatsOf(P) ==
    [n |-> Cardinality(P),
     sum |-> SumOver(P, intensity),
     sumsq |-> SumOver(P, [v \in P |-> intensity[v] * intensity[v]])]

\* a variant of StatLabels that reads the working volume
StatLabels_Working ==
    {k \in Range(label_values) :
        Cardinality({v \in patches[1] : new_labels[v] = k}) > 1}

\* the labels of the loop of lines 204-207 that get an entry
StatLabels == {k \in Range(label_values) : Cardinality(PatchPoints(k)) > 1}

get_patch ==
    /\ pc = "loop"
    /\ seeds # <<>>
    /\ IF still_lcv_patch # {}
       THEN /\ lcvp' = SortedSeq(PatchLcv)
            /\ patch_stats' = [k \in StatLabels |-> StatsOf(PatchPoints(k))]
            /\ do_walk' = "True"
            /\ patches' = Tail(patches)
            /\ pc' = "get_mst_sequence"
            /\ UNCHANGED seeds
       ELSE /\ do_walk' = "False"
            /\ patches' = Tail(patches)
            /\ seeds' = Tail(seeds)
            /\ pc' = "loop"
            /\ UNCHANGED <<lcvp, patch_stats>>
    /\ UNCHANGED <<shape, labelimg_list, thresholds, beta, mixing_ratio,
                   patch_length, intensity, label_values, mode, labels,
                   new_labels, label_count, lcv, no_lcv, seq, pos, error>>

-----------------------------------------------------------------------------
(* run(): get_mst_sequence                                                 *)

\* the nodes of the graph: the positions 1..n of self.lcvp
Nodes == 1 .. Len(lcvp)

\* weightm[wx][wy] for wx <= wy, as its square (weights are never negative,
\* so squares order and tie as the weights do): the intensity gradient of
\* two direct neighbours, 100 * the distance otherwise (0 on the diagonal)
Weight2(wx, wy) ==
    IF lcvp[wx] \in neighbors_small(lcvp[wy], shape)
    THEN Abs(intensity[lcvp[wx]] - intensity[lcvp[wy]])
         * Abs(intensity[lcvp[wx]] - intensity[lcvp[wy]])
    ELSE FarFactor * FarFactor * Dist2(lcvp[wx], lcvp[wy], shape)

\* the edges csgraph reads from the dense upper-triangular weightm: an
\* entry of 0 is no edge
GraphEdges == {e \in Nodes \X Nodes : e[1] < e[2] /\ Weight2(e[1], e[2]) # 0}

RECURSIVE Closure(_, _)
\* the nodes joined to the node set S by the edges F
Closure(S, F) ==
    LET T == S \cup {e[1] : e \in {f \in F : f[2] \in S}}
               \cup {e[2] : e \in {f \in F : f[1] \in S}}
    IN IF T = S THEN S ELSE Closure(T, F)

Components(F) == {Closure({a}, F) : a \in Nodes}

\* F is a spanning forest of the graph: it joins what the graph joins and
\* holds no cycle
SpanningForest(F) ==
    /\ \A a \in Nodes : Closure({a}, F) = Closure({a}, GraphEdges)
    /\ Cardinality(F) = Cardinality(Nodes) - Cardinality(Components(F))

\* a spanning forest is of minimum weight iff no edge left out is lighter
\* than an edge of the forest's path between its ends
MinimumForest(F) ==
    \A e \in GraphEdges \ F : \A f \in F :
        (e[2] \notin Closure({e[1]}, F \ {f}))
            => Weight2(f[1], f[2]) <= Weight2(e[1], e[2])

\* what csgraph.minimum_spanning_tree(weightm) may return: a minimum
\* spanning forest, which one among several of equal weight is scipy's choice
MinimumSpanningTrees ==
    {F \in SUBSET GraphEdges : SpanningForest(F) /\ MinimumForest(F)}

RECURSIVE SortedEdges(_)
\* np.argwhere(mst).tolist(): the edges in row-major order
SortedEdges(F) ==
    IF F = {} THEN <<>>
    ELSE LET m == CHOOSE p \in F : \A q \in F : p = q \/ PairLess(p, q)
         IN <<m>> \o SortedEdges(F \ {m})

Touches(e, sq) == e[1] \in Range(sq) \/ e[2] \in Range(sq)

\* the for loop of lines 243-246: the first edge, in the order of edges,
\* of least cost among those with an end in the sequence
FirstCheapest(edges, sq) ==
    LET cand == {i \in DOMAIN edges : Touches(edges[i], sq)}
        best == Min({i \in cand : \A j \in cand :
                        Weight2(edges[i][1], edges[i][2])
                            <= Weight2(edges[j][1], edges[j][2])})
    IN edges[best]

RemoveFirst(edges, e) ==
    LET k == IndexOf(edges, e)
    IN [i \in 1 .. (Len(edges) - 1) |-> IF i < k THEN edges[i] ELSE edges[i + 1]]

RECURSIVE MstWalk(_, _, _)
\* the while loop of lines 241-253 from the sequence sq (positions in
\* lcvp), the remaining edges and the last nextedge (<<>>: not bound yet).
\* With no edge at the sequence the for loop binds nothing: nextedge is
\* read unbound (UnboundLocalError) or keeps the edge of the last round,
\* which edges.remove no longer finds (ValueError)
MstWalk(sq, edges, nextedge) ==
    IF edges = <<>> THEN [seq |-> sq, err |-> "none"]
    ELSE IF \A i \in DOMAIN edges : ~Touches(edges[i], sq)
         THEN IF nextedge = <<>>
              THEN [seq |-> sq, err |-> "UnboundLocalError"]
              ELSE [seq |-> Append(sq, nextedge[2]), err |-> "ValueError"]
         ELSE LET e == FirstCheapest(edges, sq)
                  nxt == IF e[1] \in Range(sq) THEN e[2] ELSE e[1]
              IN MstWalk(Append(sq, nxt), RemoveFirst(edges, e), e)

\* lines 238-253 for the tree F: the sequence of positions, or the error
SequenceOf(F) ==
    MstWalk(<<IndexOf(lcvp, seeds[1])>>, SortedEdges(F), <<>>)

\* a variant of SeqVoxels that keeps the positions (counted from 0)
SeqVoxels_Positions(sq) == [i \in 1 .. Len(sq) |-> sq[i] - 1]

\* [self.lcvp[i] for i in self.seq]: the voxels at the positions sq
SeqVoxels(sq) == [i \in 1 .. Len(sq) |-> lcvp[sq[i]]]

get_mst_sequence ==
    /\ pc = "get_mst_sequence"
    /\ \E F \in MinimumSpanningTrees :
         LET r == SequenceOf(F)
         IN IF r.err = "none"
            THEN /\ seq' = SeqVoxels(r.seq)
                 /\ seeds' = Tail(seeds)
                 /\ pos' = 1
                 /\ pc' = "mrf_potentials"
                 /\ UNCHANGED error
            ELSE /\ seq' = r.seq
                 /\ pc' = "raised"
                 /\ error' = r.err
                 /\ UNCHANGED <<seeds, pos>>
    /\ UNCHANGED <<shape, labelimg_list, thresholds, beta, mixing_ratio,
                   patch_length, intensity, label_values, mode, labels,
                   new_labels, label_count, lcv, no_lcv, patches, do_walk,
                   lcvp, patch_stats>>

-----------------------------------------------------------------------------
(* run(): mrf_potentials, one voxel of self.seq per step                   *)

\* std = 0: with n points, n * sumsq = sum^2 exactly when all are equal
StdZero(st) == st.n * st.sumsq = st.sum * st.sum

\* mrf_double = beta * (2*sum(nlflat[n] == value) + sum(nlflat[n] == -1)
\*                      - len(n))
mrf_double(v, value) ==
    LET n == neighbors_small(v, shape)
    IN beta * (2 * Cardinality({u \in n : new_labels[u] = value})
               + Cardinality({u \in n : new_labels[u] = Sentinel})
               - Cardinality(n))

\* mrf_single + mrf_double for a label whose std is not 0, given the value
\* single of its Gaussian term
mrf_total(v, value, single) == single[value] + mrf_double(v, value)

RECURSIVE EnergyLoop(_, _, _, _, _)
\* the for loop of lines 271-278 over the keys from position i on;
\* mrf_energy and new_label are <<>> for np.inf and for not bound yet.
\* With std = 0 the Gaussian term is log(0) + x/0 = nan, and nan < x is
\* False: such a label is never taken
EnergyLoop(keys, i, v, single, cur) ==
    IF i > Len(keys) THEN cur
    ELSE LET value == keys[i]
             take == /\ ~StdZero(patch_stats[value])
                     /\ \/ cur.mrf_energy = <<>>
                        \/ mrf_total(v, value, single) < cur.mrf_energy[1]
         IN EnergyLoop(keys, i + 1, v, single,
                IF take
                THEN [mrf_energy |-> <<mrf_total(v, value, single)>>,
                      new_label |-> <<value>>]
                ELSE cur)

\* the label of least energy for voxel v: <<label>>, or <<>> when the loop
\* bound none.  The keys of a dict filled in the order of label_values
NewLabel(v, single) ==
    EnergyLoop(SortedSeq(DOMAIN patch_stats), 1, v, single,
               [mrf_energy |-> <<>>, new_label |-> <<>>]).new_label

\* self.label_count[lcv][np.where(self.label_values == new_label)[0][0]] += 1
Tally(count, value) ==
    [count EXCEPT ![IndexOf(label_values, value)] = @ + 1]

\* a variant of TallyLeader that takes the last position holding the maximum
TallyLeader_Last(count) ==
    label_values[Max({i \in DOMAIN count : \A j \in DOMAIN count :
                        count[i] >= count[j]})]

\* self.label_values[np.argmax(self.label_count[lcv])]
TallyLeader(count) == label_values[ArgMax(count)]

\* One round of the loop of lines 268-282, on the voxel seq[pos].  The
\* Gaussian term of a label is a real number (a logarithm): the model takes
\* any value of 0..MaxSingle for it, in units in which beta is an integer.
\* Whether it is nan is decided by the patch alone, so a round that binds
\* no label is the first round, and reading new_label raises
\* UnboundLocalError.  After the last round seq and patch_stats are deleted
mrf_potentials ==
    /\ pc = "mrf_potentials"
    /\ \E single \in [DOMAIN patch_stats -> 0 .. MaxSingle] :
         LET v == seq[pos]
             nl == NewLabel(v, single)
         IN IF nl = <<>>
            THEN /\ pc' = "raised"
                 /\ error' = "UnboundLocalError"
                 /\ UNCHANGED <<new_labels, label_count, seq, patch_stats,
                                pos>>
            ELSE /\ label_count' =
                        [label_count EXCEPT ![v] = Tally(@, nl[1])]
                 /\ new_labels' =
                        [new_labels EXCEPT ![v] = TallyLeader(label_count'[v])]
                 /\ IF pos = Len(seq)
                    THEN /\ seq' = <<>>
                         /\ patch_stats' = NoStats
                         /\ pos' = 0
                         /\ pc' = "loop"
                    ELSE /\ pos' = pos + 1
                         /\ UNCHANGED <<seq, patch_stats, pc>>
                 /\ UNCHANGED error
    /\ UNCHANGED <<shape, labelimg_list, thresholds, beta, mixing_ratio,
                   patch_length, intensity, label_values, mode, labels,
                   lcv, no_lcv, seeds, patches, do_walk, lcvp>>

-----------------------------------------------------------------------------
(* run(): final_labels                                                     *)

RECURSIVE FinalLoop(_, _, _)
\* the loop of lines 296-297 from label index i on: the voxels of still_lcv
\* whose mode is i get label_values[i]
FinalLoop(i, nl, still_lcv) ==
    IF i > Len(label_values) THEN nl
    ELSE FinalLoop(i + 1,
            [v \in DOMAIN nl |->
                IF v \in still_lcv /\ mode[v].idx = i
                THEN label_values[i] ELSE nl[v]],
            still_lcv)

\* a variant of FinalLabels that gives the first label value
FinalLabels_First(nl) ==
    [v \in DOMAIN nl |-> IF nl[v] = Sentinel THEN label_values[1] ELSE nl[v]]

\* new_labels after final_labels
FinalLabels(nl) == FinalLoop(1, nl, {v \in DOMAIN nl : nl[v] = Sentinel})

\* the seed queue is empty: final_labels, then run() returns
\* get_output_image() of self.labels = self.new_labels
final_labels ==
    /\ pc = "loop"
    /\ seeds = <<>>
    /\ new_labels' = FinalLabels(new_labels)
    /\ labels' = new_labels'
    /\ pc' = "done"
    /\ UNCHANGED <<shape, labelimg_list, thresholds, beta, mixing_ratio,
                   patch_length, intensity, label_values, mode, label_count,
                   lcv, no_lcv, seeds, patches, do_walk, lcvp, patch_stats,
                   seq, pos, error>>

-----------------------------------------------------------------------------
(* The inputs and the specifications                                       *)

\* a label volume: background 0 below voxel k, the structure 1 from k on
StepImage(sh, k) == [v \in Vox(sh) |-> IF v < k THEN 0 ELSE 1]

\* a second candidate that differs from img on the voxels D
Disagree(img, D) == [v \in DOMAIN img |-> IF v \in D THEN 1 - img[v] ELSE img[v]]

\* intensity volumes: the constant one, and those that rise along the
\* volume in stairs, by 1 every d voxels (all voxels distinct for d = 1)
Stairs(sh) ==
    {[v \in Vox(sh) |-> 0]}
        \cup {[v \in Vox(sh) |-> v \div d] : d \in 1 .. MaxRun}

\* Three candidates over a 1 x 1 x Width volume, the structure in its upper
\* part: two alike and one that differs from them on at most MaxDisagree
\* voxels, which are the low-confidence voxels under the default thresholds
Init ==
    \E D \in {X \in SUBSET (0 .. (Width - 1)) : Cardinality(X) <= MaxDisagree} :
        LET sh == <<1, 1, Width>>
            base == StepImage(sh, Width \div 2)
            imgs == <<base, base, Disagree(base, D)>>
        IN /\ SameLabels(imgs)
           /\ \E inten \in Stairs(sh) :
              \E b \in BetaVals, mr \in 0 .. MaxMixing, pl \in 0 .. MaxPatchLength :
                Constructed(sh, imgs, <<2, 2>>, b, mr, pl, inten)

\* the label volumes over the label set LS that hold every label of it
ImagesOver(sh, LS) == {f \in [Vox(sh) -> LS] : Range(f) = LS}

\* NImgC candidates over a 1 x 1 x WidthC volume, any labels of
\* 0..MaxLabelC and any thresholds; mixing_ratio 0, the rest at its default
InitClassify ==
    \E LS \in (SUBSET (0 .. MaxLabelC)) \ {{}} :
    \E imgs \in [1 .. NImgC -> ImagesOver(<<1, 1, WidthC>>, LS)] :
    \E thr \in [1 .. Cardinality(LS) -> ThresholdVals] :
        Constructed(<<1, 1, WidthC>>, imgs, thr, -1, 0, 5,
                    [v \in Vox(<<1, 1, WidthC>>) |-> 0])

Next ==
    \/ find_lcv
    \/ find_seeds
    \/ get_patch
    \/ get_mst_sequence
    \/ mrf_potentials
    \/ final_labels

Spec == Init /\ [][Next]_vars

\* run() on the classification family
SpecClassify == InitClassify /\ [][Next]_vars

-----------------------------------------------------------------------------
(* Properties                                                              *)

\* the votes of label value k at voxel v, counted from the candidates
VotesFor(k, v) ==
    Cardinality({n \in DOMAIN labelimg_list : labelimg_list[n][v] = k})

\* n(v): the number of distinct label values voted at v
DistinctVoted(v) == Cardinality({labelimg_list[n][v] : n \in DOMAIN labelimg_list})

\* the majority-vote label of voxel v
ModeLabel(v) == label_values[mode[v].idx]

\* the voxels classified low-confidence at construction
InitialLcv == Range(lcv)

\* the votes cast so far for voxel v
VotesCast(v) == SumOver(DOMAIN label_count[v], label_count[v])

\* the tallies exist from find_lcv on, when a voxel is low-confidence
Tallied == no_lcv = "False"

\* C1: the sequence get_mst_sequence builds starts at the patch's seed and
\* holds every low-confidence voxel of the patch exactly once
C1_SequenceIsPermutation ==
    [][(pc = "get_mst_sequence" /\ pc' = "mrf_potentials")
         => /\ seq'[1] = seeds[1]
            /\ Len(seq') = Len(lcvp)
            /\ Range(seq') = Range(lcvp)]_vars

\* the index whose count the step raised for voxel v
JustVoted(v) ==
    CHOOSE i \in DOMAIN label_values : label_count'[v][i] # label_count[v][i]

IsLeader(count, i) == \A j \in DOMAIN count : count[i] >= count[j]

\* C2 as claimed: after each vote the working label leads the tally, and on
\* a shared lead it is the label just voted
C2_TieToLatestVote ==
    [][(pc = "mrf_potentials" /\ pc' # "raised")
         => LET v == seq[pos]
                c == label_count'[v]
            IN /\ IsLeader(c, IndexOf(label_values, new_labels'[v]))
               /\ IsLeader(c, JustVoted(v))
                    => new_labels'[v] = label_values[JustVoted(v)]]_vars

\* C2 as amended: the working label of every voxel that has a vote leads
\* its tally, and on a shared lead it is the first of the leaders in the
\* order of label_values
C2_TieToFirstLabel ==
    Tallied =>
        \A v \in DOMAIN label_count :
            VotesCast(v) > 0 =>
                LET w == IndexOf(label_values, new_labels[v])
                IN /\ new_labels[v] \in Range(label_values)
                   /\ IsLeader(label_count[v], w)
                   /\ \A j \in DOMAIN label_values :
                        IsLeader(label_count[v], j) => w <= j

\* a voxel with two votes, one each for two labels
C2_Witness ==
    /\ Tallied
    /\ \E v \in DOMAIN label_count :
        \E i, j \in DOMAIN label_values :
            /\ i < j
            /\ label_count[v][i] > 0
            /\ label_count[v][i] = label_count[v][j]
            /\ IsLeader(label_count[v], i)

\* the score of a seed: its high-confidence voxels among the 26 neighbours
Score(v) == Cardinality(neighbors_big(v, shape) \ InitialLcv)

\* the seed queue is whole between find_seeds and the end of run()
Queued == pc \in {"loop", "get_mst_sequence", "mrf_potentials"}

\* C3 as claimed: the queue is in descending score, equal scores in
\* ascending voxel index
C3_TiesInDiscoveryOrder ==
    Queued =>
        \A i, j \in DOMAIN seeds :
            i < j => \/ Score(seeds[i]) > Score(seeds[j])
                     \/ /\ Score(seeds[i]) = Score(seeds[j])
                        /\ seeds[i] < seeds[j]

\* C3 as amended: the queue is in descending score, equal scores in
\* descending voxel index, and at the head of the loop patches[i] is the
\* patch of seeds[i]
C3_TiesInReverseOrder ==
    Queued =>
        /\ \A i, j \in DOMAIN seeds :
            i < j => \/ Score(seeds[i]) > Score(seeds[j])
                     \/ /\ Score(seeds[i]) = Score(seeds[j])
                        /\ seeds[i] > seeds[j]
        /\ pc = "loop" =>
            /\ Len(patches) = Len(seeds)
            /\ \A i \in DOMAIN seeds :
                patches[i] = {u \in Vox(shape) :
                    Dist2(seeds[i], u, shape) <= patch_length * patch_length}

\* two seeds of equal score wait in the queue
C3_Witness ==
    /\ pc = "loop"
    /\ \E i, j \in DOMAIN seeds :
        i < j /\ Score(seeds[i]) = Score(seeds[j])

\* C4: run() never raises, and what it returns holds no sentinel
C4_RunCompletes ==
    /\ pc # "raised"
    /\ pc = "done" => \A v \in DOMAIN labels : labels[v] # Sentinel

\* C5: a head patch with no voxel at the sentinel in the working volume is
\* dropped with its seed, nothing else changes and no walk starts
C5_ResolvedPatchDiscarded ==
    [][(/\ pc = "loop"
        /\ seeds # <<>>
        /\ \A v \in patches[1] : new_labels[v] # Sentinel)
         => /\ new_labels' = new_labels
            /\ label_count' = label_count
            /\ seeds' = Tail(seeds)
            /\ patches' = Tail(patches)
            /\ seq' = <<>>
            /\ do_walk' = "False"
            /\ pc' = "loop"]_vars

\* a patch was discarded after a walk had resolved its voxels
C5_Witness ==
    /\ pc = "loop"
    /\ do_walk = "False"
    /\ \E v \in DOMAIN label_count : VotesCast(v) > 0

\* C6: with no low-confidence voxel run() returns at once: no seed is
\* chosen, no tally or working volume is made, and every voxel holds its
\* majority-vote label
C6_NoLcvReturnsMajority ==
    /\ no_lcv = "False" => \E v \in DOMAIN labelimg_list[1] : v \in InitialLcv
    /\ no_lcv = "True" =>
        /\ pc = "done"
        /\ seeds = <<>> /\ patches = <<>> /\ seq = <<>>
        /\ DOMAIN label_count = {} /\ DOMAIN new_labels = {}
        /\ error = "none"
        /\ \A v \in DOMAIN labels :
            \A k \in Range(label_values) :
                labels[v] = k <=>
                    /\ \A j \in Range(label_values) : VotesFor(k, v) >= VotesFor(j, v)
                    /\ \A j \in Range(label_values) :
                        VotesFor(j, v) = VotesFor(k, v) => k <= j

\* run() returned the majority vote of candidates that disagree somewhere
C6_Witness ==
    /\ pc = "done"
    /\ no_lcv = "True"
    /\ \E v \in DOMAIN labels : DistinctVoted(v) > 1

NoSeedQualifies == \A v \in InitialLcv : Score(v) <= mixing_ratio

\* C8: final_labels gives every voxel still at the sentinel its
\* majority-vote label and leaves the others; and when no low-confidence
\* voxel has more than mixing_ratio high-confidence neighbours no seed is
\* queued, no vote is cast and every low-confidence voxel ends with its
\* majority-vote label
C8_FinalLabels ==
    /\ [][(pc = "loop" /\ seeds = <<>>)
            => /\ pc' = "done"
               /\ \A v \in DOMAIN new_labels :
                    new_labels'[v] = IF new_labels[v] = Sentinel
                                     THEN ModeLabel(v) ELSE new_labels[v]
               /\ labels' = new_labels']_vars
    /\ []((Tallied /\ NoSeedQualifies /\ pc # "find_seeds")
            => /\ seeds = <<>>
               /\ \A v \in DOMAIN label_count : VotesCast(v) = 0
               /\ pc = "done" => \A v \in InitialLcv : labels[v] = ModeLabel(v))

\* run() ended with a voxel resolved by its tally against its majority
\* vote and a voxel that no walk reached
C8_Witness ==
    /\ pc = "done"
    /\ Tallied
    /\ \E v \in InitialLcv : VotesCast(v) > 0 /\ labels[v] # ModeLabel(v)
    /\ \E v \in InitialLcv : VotesCast(v) = 0 /\ labels[v] = ModeLabel(v)

\* the patch get_patch just built, while its seed is still queued
WalkedPatch ==
    {u \in Vox(shape) : Dist2(seeds[1], u, shape) <= patch_length * patch_length}

\* the labels held by at least two voxels of the patch P in the volume vol
HeldTwice(P, vol) ==
    {k \in Range(label_values) : Cardinality({v \in P : vol[v] = k}) >= 2}

\* C9 as claimed: the labels with statistics are those held by at least
\* two voxels of the patch in the working volume
C9_StatsFromWorkingVolume ==
    pc = "get_mst_sequence" =>
        DOMAIN patch_stats = HeldTwice(WalkedPatch, new_labels)

\* C9 as amended: the labels with statistics are those held by at least
\* two voxels of the patch in the confidence volume, so a voxel resolved by
\* an earlier walk is no sample of the label it now holds
C9_StatsFromConfidenceVolume ==
    pc = "get_mst_sequence" =>
        /\ DOMAIN patch_stats = HeldTwice(WalkedPatch, labels)
        /\ \A k \in DOMAIN patch_stats :
            patch_stats[k].n =
                Cardinality({v \in WalkedPatch \ InitialLcv : new_labels[v] = k})

\* a walked patch in which a label is held twice only with a voxel that an
\* earlier walk resolved
C9_Witness ==
    /\ pc = "get_mst_sequence"
    /\ HeldTwice(WalkedPatch, new_labels) # HeldTwice(WalkedPatch, labels)

\* C10 as claimed: the nodes of the graph are the patch voxels still at the
\* sentinel in the working volume
C10_NodesStillUnresolved ==
    pc = "get_mst_sequence" =>
        Range(lcvp) = {v \in WalkedPatch : new_labels[v] = Sentinel}

\* C10 as amended: the nodes of the graph are the patch voxels classified
\* low-confidence at construction, those resolved by an earlier walk among
\* them
C10_NodesInitiallyLowConfidence ==
    pc = "get_mst_sequence" =>
        /\ Range(lcvp) = WalkedPatch \cap InitialLcv
        /\ Len(lcvp) = Cardinality(Range(lcvp))

\* a walked patch with a node that an earlier walk resolved
C10_Witness ==
    /\ pc = "get_mst_sequence"
    /\ \E v \in Range(lcvp) : new_labels[v] # Sentinel

\* the 6-voxel neighbourhood of v, from the coordinates
DirectNeighbours(v) == {u \in Vox(shape) : Dist2(v, u, shape) = 1}

\* the pairwise energy of label k at voxel v, read in the working volume
Pairwise(v, k) ==
    beta * (2 * Cardinality({u \in DirectNeighbours(v) : new_labels[u] = k})
            + Cardinality({u \in DirectNeighbours(v) : new_labels[u] = Sentinel})
            - Cardinality(DirectNeighbours(v)))

\* n^2 times the variance of the statistics st
Spread(st) == st.n * st.sumsq - st.sum * st.sum

\* every label of patch_stats has the same mean and the same standard
\* deviation, so the singleton energies of a voxel are equal
SameStats ==
    \A a, b \in DOMAIN patch_stats :
        /\ patch_stats[a].sum * patch_stats[b].n
             = patch_stats[b].sum * patch_stats[a].n
        /\ Spread(patch_stats[a]) * patch_stats[b].n * patch_stats[b].n
             = Spread(patch_stats[b]) * patch_stats[a].n * patch_stats[a].n

\* the label of least total energy at v for the singleton energies s, the
\* first one in the order of the keys on equal energies
FirstMinimiser(s, v, k) ==
    /\ k \in DOMAIN patch_stats
    /\ \A j \in DOMAIN patch_stats :
        /\ s[k] + Pairwise(v, k) <= s[j] + Pairwise(v, j)
        /\ s[k] + Pairwise(v, k) = s[j] + Pairwise(v, j) => k <= j

\* the label of patch_stats held by most direct neighbours of v in the
\* working volume, the first one in the order of the keys on equal counts
MostNeighbours(v, k) ==
    LET held(j) == Cardinality({u \in DirectNeighbours(v) : new_labels[u] = j})
    IN /\ k \in DOMAIN patch_stats
       /\ \A j \in DOMAIN patch_stats :
            /\ held(k) >= held(j)
            /\ held(k) = held(j) => k <= j

\* C11: every round of mrf_potentials casts a vote at the voxel it visits,
\* for the label of patch_stats that minimises singleton + pairwise energy
\* for some singleton energies (equal ones when the statistics of the
\* labels are the same), the first such label on ties; so with equal
\* singleton energies and beta < 0 the vote goes to the label held by most
\* direct neighbours
C11_VotesMinimumEnergy ==
    [][pc = "mrf_potentials"
         => LET v == seq[pos]
            IN /\ pc' # "raised"
               /\ \E s \in [DOMAIN patch_stats -> 0 .. MaxSingle] :
                    /\ SameStats => \A a, b \in DOMAIN patch_stats : s[a] = s[b]
                    /\ FirstMinimiser(s, v, label_values[JustVoted(v)])
               /\ (SameStats /\ beta < 0)
                    => MostNeighbours(v, label_values[JustVoted(v)])]_vars

\* the confidence volume as construction left it, from the candidates
InitialLabels == Classify(labelimg_list, label_values, thresholds, mode, shape)

\* the voxels classified high-confidence at construction
HighConfidence == {v \in Vox(shape) : InitialLabels[v] # Sentinel}

\* C12: a voxel classified high-confidence at construction holds its label
\* at every point of run(), in the confidence volume and in the working
\* volume, and its tally stays at zero; a step changes the working label or
\* the tally of no such voxel
C12_HighConfidenceKept ==
    /\ [](LET initial == InitialLabels
          IN \A v \in DOMAIN initial :
                initial[v] # Sentinel
                    => /\ labels[v] = initial[v]
                       /\ Tallied => /\ new_labels[v] = initial[v]
                                     /\ VotesCast(v) = 0)
    /\ [][(pc \in {"mrf_potentials", "loop"})
            => LET initial == InitialLabels
               IN \A v \in DOMAIN new_labels :
                    (\/ new_labels'[v] # new_labels[v]
                     \/ label_count'[v] # label_count[v])
                        => initial[v] = Sentinel]_vars

\* run() ended after two walks voted on one voxel next to a high-confidence
\* voxel whose label the voxel did not take
C12_Witness ==
    /\ pc = "done"
    /\ Tallied
    /\ \E v \in Vox(shape) \ HighConfidence :
        /\ VotesCast(v) >= 2
        /\ \E u \in DirectNeighbours(v) \cap HighConfidence : labels[u] # labels[v]

=============================================================================
